---- MODULE Spec2Model ----
(***************************************************************************)
(* Model of the ROE calculation engine of realtyvest-ai                    *)
(* (src/src/features/roe_calculator.py): rent estimation, mortgage         *)
(* amortization, single-property valuation and the portfolio batch.        *)
(*                                                                         *)
(* Numbers.  Python floats are modelled in fixed point:                    *)
(*   money            integer cents                                        *)
(*   square footage   integer hundredths of a square foot                  *)
(*   ratios and rates integer multiples of 1/RS  (RS = 10^8)               *)
(* Every product and quotient is rounded to the nearest unit, as a float   *)
(* operation rounds to the nearest representable value.  A Python value is *)
(* a record [k, v]: k = "num" (v is the number), "nan" (float NaN),        *)
(* "none" (None, or any object that supports no arithmetic), or the name   *)
(* of the exception an expression raised.                                  *)
(***************************************************************************)
EXTENDS Integers, Sequences, FiniteSets, TLC

(***************************************************************************)
(* Fixed-point arithmetic                                                  *)
(***************************************************************************)
RS == 10^8
Cents == 10^2

Abs(x) == IF x < 0 THEN 0 - x ELSE x
Sign(x) == IF x < 0 THEN 0 - 1 ELSE 1

\* a * b / RS for a, b >= 0, rounded to the nearest unit, formed from
\* four-digit limbs so that no intermediate exceeds 31 bits.
Limb == 10^4
MulRS(a, b) ==
  LET a1 == a \div Limb
      a0 == a % Limb
      b1 == b \div Limb
      b0 == b % Limb
      m1 == a1 * b0
      m2 == a0 * b1
      low == ((m1 % Limb) + (m2 % Limb)) * Limb + a0 * b0
      q == a1 * b1 + (m1 \div Limb) + (m2 \div Limb) + (low \div RS)
  IN IF 2 * (low % RS) >= RS THEN q + 1 ELSE q

\* x / y for x >= 0, y > 0, rounded to the nearest unit.
DivRound(x, y) ==
  LET q == x \div y
      r == x % y
  IN IF r >= y - r THEN q + 1 ELSE q

\* Binary long multiplication of x by the low i bits of RS, modulo y:
\* <<q, r>> with (x * prefix of RS) = q * y + r, 0 <= r < y.  xq, xr are
\* the quotient and remainder of x by y.
RSBits == 26 + 1
RECURSIVE DivLoop(_, _, _, _, _, _)
DivLoop(q, r, i, xq, xr, y) ==
  IF i = 0 THEN <<q, r>>
  ELSE LET dbl == r >= y - r
           r1  == IF dbl THEN r - (y - r) ELSE 2 * r
           q1  == 2 * q + (IF dbl THEN 1 ELSE 0)
           bit == (RS \div 2^(i - 1)) % 2 = 1
           add == bit /\ r1 >= y - xr
           r2  == IF ~bit THEN r1 ELSE IF add THEN r1 - (y - xr) ELSE r1 + xr
           q2  == IF ~bit THEN q1 ELSE q1 + xq + (IF add THEN 1 ELSE 0)
       IN IF q2 >= 0 /\ r2 >= 0 THEN DivLoop(q2, r2, i - 1, xq, xr, y)
          ELSE <<q2, r2>>

\* x * RS / y for x >= 0, y > 0, rounded to the nearest unit.
DivRS(x, y) ==
  LET qr == DivLoop(0, 0, RSBits, x \div y, x % y, y)
  IN IF qr[2] >= y - qr[2] THEN qr[1] + 1 ELSE qr[1]

\* Signed forms: the magnitude is rounded, the sign is that of the exact
\* result.
SMulRS(a, b) == Sign(a) * Sign(b) * MulRS(Abs(a), Abs(b))
SDivRS(x, y) == Sign(x) * Sign(y) * DivRS(Abs(x), Abs(y))
SDivRound(x, y) == Sign(x) * Sign(y) * DivRound(Abs(x), Abs(y))

(***************************************************************************)
(* Python values                                                           *)
(***************************************************************************)
Num(n) == [k |-> "num", v |-> n]
NaN == [k |-> "nan", v |-> 0]
None == [k |-> "none", v |-> 0]
Raise(e) == [k |-> e, v |-> 0]

ExcNames == {"TypeError", "KeyError", "ZeroDivisionError"}
IsExc(x) == x.k \in ExcNames
IsNum(x) == x.k = "num"

\* The result of a binary float operation when an operand is not a
\* number: an exception in an operand propagates, None supports no
\* arithmetic, NaN is contagious.
NonNum(a, b) ==
  IF IsExc(a) THEN a
  ELSE IF IsExc(b) THEN b
  ELSE IF a.k = "none" \/ b.k = "none" THEN Raise("TypeError")
  ELSE NaN

BothNum(a, b) == IsNum(a) /\ IsNum(b)

IntMul(x, y) == Num(x * y)
RatioMul(x, y) == Num(SMulRS(x, y))
IntAdd(x, y) == Num(x + y)
IntSub(x, y) == Num(x - y)
IntDiv(x, y) == IF y = 0 THEN Raise("ZeroDivisionError") ELSE Num(SDivRound(x, y))
RatioDiv(x, y) == IF y = 0 THEN Raise("ZeroDivisionError") ELSE Num(SDivRS(x, y))

PyMul(a, b) == IF BothNum(a, b) THEN IntMul(a.v, b.v) ELSE NonNum(a, b)      \* a * b, b a plain count
PyMulR(a, b) == IF BothNum(a, b) THEN RatioMul(a.v, b.v) ELSE NonNum(a, b)   \* a * b, b a ratio
PyAdd(a, b) == IF BothNum(a, b) THEN IntAdd(a.v, b.v) ELSE NonNum(a, b)
PySub(a, b) == IF BothNum(a, b) THEN IntSub(a.v, b.v) ELSE NonNum(a, b)
PyDiv(a, b) == IF BothNum(a, b) THEN IntDiv(a.v, b.v) ELSE NonNum(a, b)      \* a / b, b a plain count
PyDivR(a, b) == IF BothNum(a, b) THEN RatioDiv(a.v, b.v) ELSE NonNum(a, b)   \* a / b as a ratio of like quantities

\* a < b and a >= b on floats: every comparison with NaN is False.
PyLt(a, b) == IsNum(a) /\ IsNum(b) /\ a.v < b.v
PyGe(a, b) == IsNum(a) /\ IsNum(b) /\ a.v >= b.v
PyGt(a, b) == IsNum(a) /\ IsNum(b) /\ a.v > b.v

\* bool(x): zero and None are falsy, NaN is truthy.
Truthy(x) == IF IsNum(x) THEN x.v # 0 ELSE x.k = "nan"

\* The builtins min(a, b) and max(a, b): the first argument is kept unless
\* the second compares strictly less (greater).
PyMin(a, b) == IF IsExc(a) THEN a ELSE IF IsExc(b) THEN b
               ELSE IF a.k = "none" \/ b.k = "none" THEN Raise("TypeError")
               ELSE IF PyLt(b, a) THEN b ELSE a
PyMax(a, b) == IF IsExc(a) THEN a ELSE IF IsExc(b) THEN b
               ELSE IF a.k = "none" \/ b.k = "none" THEN Raise("TypeError")
               ELSE IF PyGt(b, a) THEN b ELSE a

(***************************************************************************)
(* ROE_TIERS and get_roe_tier                                              *)
(***************************************************************************)
TierNames == {"unicorn", "strong", "marginal", "pass"}

\* The module-level table as written: one dictionary per tier ('min' as a
\* ratio).  get_roe_tier returns one of these dictionaries itself, not a
\* copy, so the table is part of the state (variable roe_tiers).
ROE_TIERS ==
  [unicorn |-> [min |-> 20 * (RS \div 100), color |-> "purple", icon |-> "star",
                label |-> "UNICORN"],
   strong |-> [min |-> 15 * (RS \div 100), color |-> "green", icon |-> "home",
               label |-> "Strong Buy"],
   marginal |-> [min |-> 10 * (RS \div 100), color |-> "orange",
                 icon |-> "info-sign", label |-> "Marginal"],
   pass |-> [min |-> 0, color |-> "red", icon |-> "remove", label |-> "Pass"]]

\* Mutant: the unicorn threshold compared with > instead of >=.
get_roe_tier_strict(roe) ==
  IF PyGt(roe, Num(20 * (RS \div 100))) THEN "unicorn"
  ELSE IF PyGe(roe, Num(15 * (RS \div 100))) THEN "strong"
  ELSE IF PyGe(roe, Num(10 * (RS \div 100))) THEN "marginal"
  ELSE "pass"

\* The key of the ROE_TIERS entry get_roe_tier returns: a reference to that
\* entry of the table.
get_roe_tier(roe) ==
  IF PyGe(roe, Num(20 * (RS \div 100))) THEN "unicorn"
  ELSE IF PyGe(roe, Num(15 * (RS \div 100))) THEN "strong"
  ELSE IF PyGe(roe, Num(10 * (RS \div 100))) THEN "marginal"
  ELSE "pass"

(***************************************************************************)
(* ROECalculator.estimate_market_rent                                      *)
(***************************************************************************)
\* A ZIP code value: the string '75201' is Zip("str", 75201), the number
\* 75201 is Zip("int", 75201).
Zip(t, n) == [t |-> t, n |-> n]

high_rent_zips ==
  {Zip("str", n) : n \in {75201, 75204, 75205, 75219, 75225, 76107, 76109}}
mid_rent_zips ==
  {Zip("str", n) : n \in {75206, 75214, 75218, 75223, 75235, 76102, 76104, 76105}}

\* Mutant: every ZIP code valued at the high-rent rate.
base_rate_always_high(zip_code) == 140 * (RS \div 100)

\* Dollars per square foot, as a ratio.
base_rate(zip_code) ==
  IF zip_code \in high_rent_zips THEN 140 * (RS \div 100)
  ELSE IF zip_code \in mid_rent_zips THEN 120 * (RS \div 100)
  ELSE 100 * (RS \div 100)

\* Mutant: max(min(monthly_rent, 2500), 800), the floor as second argument.
ClampRent_floor_second(monthly_rent) ==
  PyMax(PyMin(monthly_rent, Num(2500 * Cents)), Num(800 * Cents))

\* max(800, min(monthly_rent, 2500))
ClampRent(monthly_rent) ==
  PyMax(Num(800 * Cents), PyMin(monthly_rent, Num(2500 * Cents)))

estimate_market_rent(zip_code, sqft_per_unit) ==
  ClampRent(PyMulR(sqft_per_unit, Num(base_rate(zip_code))))

(***************************************************************************)
(* ROECalculator.calculate_mortgage_payment                                *)
(***************************************************************************)
\* base ** n for a ratio base and an integer n >= 0.
RECURSIVE FxPow(_, _)
FxPow(base, n) ==
  IF n = 0 THEN RS
  ELSE IF n % 2 = 0
       THEN LET h == FxPow(base, n \div 2) IN SMulRS(h, h)
       ELSE SMulRS(base, FxPow(base, n - 1))

RatioPow(x, n) == Num(FxPow(x, n))
PyPow(a, b) == IF BothNum(a, b) THEN RatioPow(a.v, b.v) ELSE NonNum(a, b)

\* monthly_rate == 0
IsZeroRate(monthly_rate) == IsNum(monthly_rate) /\ monthly_rate.v = 0

\* Mutant: num_payments = years.
NumPayments_years(years) == years

\* num_payments = years * 12
NumPayments(years) == PyMul(years, Num(12))

\* Mutant: the denominator without its "- 1".
AnnuityPayment_no_minus_one(loan_amount, monthly_rate, num_payments) ==
  LET growth == PyPow(PyAdd(Num(RS), monthly_rate), num_payments)
  IN PyDivR(PyMulR(loan_amount, PyMulR(monthly_rate, growth)), growth)

\* loan_amount * (r * (1 + r) ** n) / ((1 + r) ** n - 1)
AnnuityPayment(loan_amount, monthly_rate, num_payments) ==
  LET growth == PyPow(PyAdd(Num(RS), monthly_rate), num_payments)
  IN PyDivR(PyMulR(loan_amount, PyMulR(monthly_rate, growth)),
            PySub(growth, Num(RS)))

calculate_mortgage_payment(loan_amount, annual_rate, years) ==
  LET monthly_rate == PyDiv(annual_rate, Num(12))
      num_payments == NumPayments(years)
  IN IF IsZeroRate(monthly_rate)
     THEN PyDiv(loan_amount, num_payments)
     ELSE AnnuityPayment(loan_amount, monthly_rate, num_payments)

(***************************************************************************)
(* ROECalculator.calculate_principal_paydown_year1                         *)
(***************************************************************************)
\* Mutant: principal_payment = interest_payment - monthly_payment.
AmortStep_interest_minus_payment(s, monthly_payment, monthly_rate) ==
  LET interest_payment == PyMulR(s.balance, monthly_rate)
      principal_payment == PySub(interest_payment, monthly_payment)
  IN [balance |-> PySub(s.balance, principal_payment),
      total_principal |-> PyAdd(s.total_principal, principal_payment)]

\* One pass of the loop body on s = [balance, total_principal].
AmortStep(s, monthly_payment, monthly_rate) ==
  LET interest_payment == PyMulR(s.balance, monthly_rate)
      principal_payment == PySub(monthly_payment, interest_payment)
  IN [balance |-> PySub(s.balance, principal_payment),
      total_principal |-> PyAdd(s.total_principal, principal_payment)]

\* for _ in range(months): an exception in the body leaves the loop.
RECURSIVE AmortLoop(_, _, _, _)
AmortLoop(s, monthly_payment, monthly_rate, months) ==
  IF months = 0 THEN s
  ELSE LET s2 == AmortStep(s, monthly_payment, monthly_rate)
       IN IF IsExc(s2.balance) THEN s2
          ELSE AmortLoop(s2, monthly_payment, monthly_rate, months - 1)

\* Mutant: range(11).
calculate_principal_paydown_year1_11_months(loan_amount, monthly_payment, annual_rate) ==
  LET monthly_rate == PyDiv(annual_rate, Num(12))
  IN AmortLoop([balance |-> loan_amount, total_principal |-> Num(0)],
               monthly_payment, monthly_rate, 11).total_principal

calculate_principal_paydown_year1(loan_amount, monthly_payment, annual_rate) ==
  LET monthly_rate == PyDiv(annual_rate, Num(12))
  IN AmortLoop([balance |-> loan_amount, total_principal |-> Num(0)],
               monthly_payment, monthly_rate, 12).total_principal

(***************************************************************************)
(* ROECalculator.calculate_roe                                             *)
(***************************************************************************)
\* sqft / units if sqft and units else 1000
SqftPerUnit(sqft, units) ==
  IF Truthy(sqft) /\ Truthy(units) THEN PyDiv(sqft, units) ELSE Num(1000 * 100)

\* Mutant: "if not monthly_rent_per_unit", which also catches a rent of 0.
RentNotSupplied_falsy(monthly_rent_per_unit) == ~Truthy(monthly_rent_per_unit)

\* monthly_rent_per_unit is None
RentNotSupplied(monthly_rent_per_unit) == monthly_rent_per_unit.k = "none"

\* Lines 176-178: the rent used, and whether the estimator was called.
ResolveRent(monthly_rent_per_unit, sqft, units, zip_code) ==
  IF RentNotSupplied(monthly_rent_per_unit)
  THEN [rent |-> estimate_market_rent(zip_code, SqftPerUnit(sqft, units)),
        estimated |-> TRUE]
  ELSE [rent |-> monthly_rent_per_unit, estimated |-> FALSE]

\* Mutant: the division without its guard.
GuardedRatio_unguarded(numerator, denominator) == PyDivR(numerator, denominator)

\* numerator / denominator if denominator > 0 else 0
GuardedRatio(numerator, denominator) ==
  IF PyGt(denominator, Num(0)) THEN PyDivR(numerator, denominator) ELSE Num(0)

\* Mutant: the hurdle compared at the marginal threshold, roe >= 0.10.
MeetsHurdle_at_marginal(roe) == PyGe(roe, Num(10 * (RS \div 100)))

\* roe >= 0.15
MeetsHurdle(roe) == PyGe(roe, Num(15 * (RS \div 100)))

\* The name of the first exception in a sequence of statement values, or "".
RECURSIVE FirstExc(_)
FirstExc(vals) ==
  IF vals = <<>> THEN ""
  ELSE IF IsExc(Head(vals)) THEN Head(vals).k
  ELSE FirstExc(Tail(vals))

\* The call's outcome: exc is the exception raised ("" when the call
\* returns), ret the returned dictionary, estimated whether
\* estimate_market_rent was called.
calculate_roe(self, purchase_price, units, sqft, zip_code, monthly_rent_per_unit) ==
  LET rr == ResolveRent(monthly_rent_per_unit, sqft, units, zip_code)
      rent == rr.rent
      annual_gross_rent == PyMul(PyMul(rent, units), Num(12))
      annual_opex == PyMulR(annual_gross_rent, Num(self.opex_ratio))
      noi == PySub(annual_gross_rent, annual_opex)
      down_payment == PyMulR(purchase_price, Num(self.down_pct))
      loan_amount == PySub(purchase_price, down_payment)
      monthly_payment ==
        calculate_mortgage_payment(loan_amount, Num(self.rate), Num(self.term))
      annual_debt_service == PyMul(monthly_payment, Num(12))
      cash_flow == PySub(noi, annual_debt_service)
      principal_year1 ==
        calculate_principal_paydown_year1(loan_amount, monthly_payment, Num(self.rate))
      appreciation_value == PyMulR(purchase_price, Num(self.appreciation))
      total_return == PyAdd(PyAdd(cash_flow, principal_year1), appreciation_value)
      roe == GuardedRatio(total_return, down_payment)
      coc == GuardedRatio(cash_flow, down_payment)
      cap_rate == GuardedRatio(noi, purchase_price)
  IN [exc |-> FirstExc(<<rent, annual_gross_rent, annual_opex, noi, down_payment,
                         loan_amount, monthly_payment, annual_debt_service,
                         cash_flow, principal_year1, appreciation_value,
                         total_return, roe, coc, cap_rate>>),
      estimated |-> rr.estimated,
      ret |-> [purchase_price |-> purchase_price,
               units |-> units,
               monthly_rent_per_unit |-> rent,
               zip_code |-> zip_code,
               down_payment |-> down_payment,
               loan_amount |-> loan_amount,
               monthly_payment |-> monthly_payment,
               annual_gross_rent |-> annual_gross_rent,
               annual_opex |-> annual_opex,
               opex_ratio |-> Num(self.opex_ratio),
               noi |-> noi,
               annual_debt_service |-> annual_debt_service,
               cash_flow |-> cash_flow,
               principal_paydown |-> principal_year1,
               appreciation |-> appreciation_value,
               total_return |-> total_return,
               roe |-> roe,
               coc |-> coc,
               cap_rate |-> cap_rate,
               meets_hurdle |-> MeetsHurdle(roe),
               tier |-> get_roe_tier(roe)]]

(***************************************************************************)
(* ROECalculator.analyze_portfolio                                         *)
(***************************************************************************)
\* A table is [cols, rows]: the set of its column names and the sequence
\* of its rows, each a function from cols to Python values.

\* row[c]: a KeyError when the table has no column c.
RowGet(row, c) == IF c \in DOMAIN row THEN row[c] ELSE Raise("KeyError")

\* row.get(c, None)
RowGetOrNone(row, c) == IF c \in DOMAIN row THEN row[c] ELSE None

\* result = {**row.to_dict(), **roe_calc}: a key of roe_calc replaces the
\* row's column of the same name.
MergeResult(row, roe_calc) ==
  [c \in DOMAIN row \cup DOMAIN roe_calc |->
     IF c \in DOMAIN roe_calc THEN roe_calc[c] ELSE row[c]]

\* The outcome of the try block given that of its calculate_roe call.
RowOutcome(row, r) == [exc |-> r.exc, result |-> MergeResult(row, r.ret)]

\* The body of the try block for one row: exc is the exception raised
\* ("" when the row succeeds), result the dictionary appended to results.
ProcessRow(self, row) ==
  IF FirstExc(<<RowGet(row, "price"), RowGet(row, "units"),
                RowGetOrNone(row, "sqft")>>) # ""
  THEN [exc |-> FirstExc(<<RowGet(row, "price"), RowGet(row, "units"),
                           RowGetOrNone(row, "sqft")>>),
        result |-> row]
  ELSE IF "zip_code" \notin DOMAIN row THEN [exc |-> "KeyError", result |-> row]
  ELSE RowOutcome(row, calculate_roe(self, RowGet(row, "price"), RowGet(row, "units"),
                                     RowGetOrNone(row, "sqft"),
                                     RowGet(row, "zip_code"), None))

\* Mutant: "break" in the except clause.
NextIndexAfterFailure_break(i, n) == n

\* except Exception: ... continue
NextIndexAfterFailure(i, n) == i + 1

\* pd.DataFrame(results)['roe']: a table built from an empty list has no
\* columns, so selecting 'roe' raises KeyError.
SummaryExc(rs) == IF rs = <<>> THEN "KeyError" ELSE ""

\* len(result_df[...]) for the three selections of lines 289-291, as logged.
SummaryCounts(rs) ==
  [unicorns |-> Cardinality({j \in 1..Len(rs) : PyGe(rs[j]["roe"], Num(20 * (RS \div 100)))}),
   strong |-> Cardinality({j \in 1..Len(rs) :
                 /\ PyGe(rs[j]["roe"], Num(15 * (RS \div 100)))
                 /\ PyLt(rs[j]["roe"], Num(20 * (RS \div 100)))}),
   marginal |-> Cardinality({j \in 1..Len(rs) :
                   /\ PyGe(rs[j]["roe"], Num(10 * (RS \div 100)))
                   /\ PyLt(rs[j]["roe"], Num(15 * (RS \div 100)))})]

(***************************************************************************)
(* State                                                                   *)
(***************************************************************************)
VARIABLES
  self,           \* the calculator's configuration, set by __init__
  call,           \* a direct call: operation, arguments and, once made, outcome
  properties_df,  \* the table passed to analyze_portfolio
  pc,             \* analyze_portfolio: "idle", "start", "loop", "summary", "done"
  idx,            \* analyze_portfolio: number of rows iterated so far
  results,        \* analyze_portfolio: the results list
  outcome,        \* analyze_portfolio: exception raised ("" if none), rows returned
  amort,          \* a loan amortized month by month over its whole term
  kept,           \* what the caller holds of an earlier, identical request
  between,        \* a call made between the two identical requests
  roe_tiers       \* the module-level ROE_TIERS table as it currently is

vars == <<self, call, properties_df, pc, idx, results, outcome, amort,
          kept, between, roe_tiers>>

(***************************************************************************)
(* Inputs                                                                  *)
(***************************************************************************)
MaxRows == 3

Pct(n) == n * (RS \div 100)
Dollars(n) == n * Cents
Sqft(n) == n * 100
Str(n) == [t |-> "str", n |-> n]

\* ROECalculator(...) as constructed by analyze_roe.main and app.py (the
\* defaults), and with other underwriting assumptions.
Configs ==
  { [opex_ratio |-> Pct(35), down_pct |-> Pct(25), rate |-> Pct(7),
     term |-> 30, appreciation |-> 0],
    [opex_ratio |-> Pct(35), down_pct |-> 0, rate |-> Pct(7),
     term |-> 30, appreciation |-> 0],
    [opex_ratio |-> Pct(40), down_pct |-> Pct(20), rate |-> 0,
     term |-> 15, appreciation |-> Pct(3)] }

ZipValues == {Zip("str", 75201), Zip("str", 75206), Zip("str", 75001),
              Zip("int", 75201)}
SqftPerUnitValues ==
  {Num(0), Num(0 - Sqft(500)), Num(Sqft(1)), Num(Sqft(700)), Num(Sqft(1000)),
   Num(Sqft(2000)), Num(Sqft(10000000)), NaN}
RoeValues ==
  {Num(0 - Pct(50)), Num(0 - 1), Num(0), Num(Pct(10) - 1), Num(Pct(10)),
   Num(Pct(10) + 1), Num(Pct(15) - 1), Num(Pct(15)), Num(Pct(15) + 1),
   Num(Pct(20) - 1), Num(Pct(20)), Num(Pct(20) + 1), Num(Pct(500)), NaN}
LoanValues == {Num(0 - Dollars(1200)), Num(0), Num(Dollars(1200)),
               Num(Dollars(100000)), Num(Dollars(750000))}
RateValues == {Num(0), Num(Pct(3)), Num(Pct(7))}
YearValues == {Num(1), Num(2), Num(15), Num(30)}
PriceValues == {Num(0), Num(Dollars(400000)), Num(Dollars(1000000)),
                Num(0 - Dollars(400000)), NaN, None}
UnitValues == {Num(0), Num(4), Num(10), NaN, None}
SqftValues == {Num(0), Num(Sqft(3000)), Num(Sqft(10000)), NaN, None}
PaymentValues == {Num(0 - Dollars(100)), Num(0), Num(Dollars(1)),
                  Num(Dollars(4375)), Num(Dollars(5000))}
RentValues == {None, Num(0), Num(Dollars(500)), Num(Dollars(1500)),
               Num(Dollars(4000))}

\* The direct calls a caller can make.
Calls ==
  {[op |-> "estimate_market_rent", done |-> FALSE, zip_code |-> z,
    sqft_per_unit |-> spu] : z \in ZipValues, spu \in SqftPerUnitValues}
  \cup {[op |-> "get_roe_tier", done |-> FALSE, roe |-> roe] : roe \in RoeValues}
  \cup {[op |-> "calculate_mortgage_payment", done |-> FALSE, loan_amount |-> loan,
         annual_rate |-> rate, years |-> years] :
          loan \in LoanValues, rate \in RateValues, years \in YearValues}
  \cup {[op |-> "calculate_principal_paydown_year1", done |-> FALSE,
         loan_amount |-> loan, monthly_payment |-> payment, annual_rate |-> rate] :
          loan \in LoanValues, payment \in PaymentValues, rate \in RateValues}
  \cup {[op |-> "calculate_roe", done |-> FALSE, purchase_price |-> price,
         units |-> units, sqft |-> sqft, zip_code |-> z,
         monthly_rent_per_unit |-> rent] :
          price \in PriceValues, units \in UnitValues, sqft \in SqftValues,
          z \in ZipValues, rent \in RentValues}

\* Listing rows: the values of a row's cells, for the columns the table has.
RowTemplates ==
  { [price |-> Num(Dollars(1000000)), units |-> Num(10), sqft |-> Num(Sqft(10000)),
     zip_code |-> Zip("str", 75001), monthly_rent_per_unit |-> Num(Dollars(1500))],
    [price |-> None, units |-> Num(10), sqft |-> Num(Sqft(10000)),
     zip_code |-> Zip("str", 75201), monthly_rent_per_unit |-> Num(Dollars(900))],
    [price |-> Num(Dollars(400000)), units |-> Num(4), sqft |-> NaN,
     zip_code |-> Zip("str", 75206), monthly_rent_per_unit |-> Num(Dollars(2000))],
    [price |-> Num(Dollars(400000)), units |-> Num(10), sqft |-> Num(Sqft(10000)),
     zip_code |-> Zip("int", 75201), monthly_rent_per_unit |-> Num(0)],
    [price |-> NaN, units |-> Num(10), sqft |-> Num(0),
     zip_code |-> Zip("str", 75201), monthly_rent_per_unit |-> Num(Dollars(3000))] }

BaseColumns == {"address", "price", "units", "sqft", "zip_code"}
ColumnSets == {BaseColumns, BaseColumns \ {"sqft"}, BaseColumns \ {"price"},
               BaseColumns \cup {"monthly_rent_per_unit"}}

\* Row i of a table with columns cs: its address is unique to the row.
MakeRow(cs, t, i) == [c \in cs |-> IF c = "address" THEN Str(i) ELSE t[c]]

Frames ==
  UNION { { [cols |-> cs, rows |-> [i \in 1..n |-> MakeRow(cs, ts[i], i)]] :
              ts \in [1..n -> RowTemplates] } :
          n \in 0..MaxRows, cs \in ColumnSets }

NoCall == [op |-> "none", done |-> TRUE]
NoOutcome == [exc |-> "", rows |-> <<>>]
NoFrame == [cols |-> {}, rows |-> <<>>]
NoAmort == [stage |-> "none"]
NoKept == [op |-> "none"]
NoBetween == [op |-> "none"]

\* Loans amortized over their whole term.
AmortLoans == {Num(Dollars(1200)), Num(Dollars(100000)), Num(Dollars(750000))}
AmortRuns ==
  {[stage |-> "new", loan_amount |-> loan, annual_rate |-> rate, years |-> years] :
     loan \in AmortLoans, rate \in RateValues, years \in YearValues}

\* Requests made twice.  A caller may repeat a calculate_roe call of
\* RepeatedCalls, or the analysis of a table of at most MaxRepeatRows rows,
\* and may make one of BetweenCalls on the same calculator before the
\* repetition.
MaxRepeatRows == 2

RepeatedCalls ==
  {c \in Calls : /\ c.op = "calculate_roe"
                 /\ c.units = Num(10)
                 /\ c.zip_code = Zip("str", 75201)}

BetweenCalls ==
  { [op |-> "estimate_market_rent", zip_code |-> Zip("str", 75206),
     sqft_per_unit |-> Num(Sqft(700))],
    [op |-> "calculate_mortgage_payment", loan_amount |-> Num(Dollars(100000)),
     annual_rate |-> Num(Pct(3)), years |-> Num(15)],
    [op |-> "calculate_roe", purchase_price |-> Num(Dollars(400000)),
     units |-> Num(4), sqft |-> Num(Sqft(3000)), zip_code |-> Zip("str", 75206),
     monthly_rent_per_unit |-> Num(Dollars(1500))] }

\* The calculator analyze_roe.main constructs: the defaults of __init__.
DefaultConfig ==
  [opex_ratio |-> Pct(35), down_pct |-> Pct(25), rate |-> Pct(7),
   term |-> 30, appreciation |-> 0]

\* The listings file analyze_roe.main loads.  A cell of the file is text:
\* Str(n) is the numeral of n, Text(i) a text that is no number (a street
\* address, a ZIP+4 code such as '75201-1234').
MaxCsvRows == 2

Text(i) == [t |-> "text", n |-> i]

CsvColumns == {"address", "price", "units", "sqft", "zip_code"}

CsvLines ==
  { [price |-> Str(1000000), units |-> Str(10), sqft |-> Str(10000),
     zip_code |-> Str(75201)],
    [price |-> Str(400000), units |-> Str(4), sqft |-> Str(4000),
     zip_code |-> Str(75206)],
    [price |-> Str(400000), units |-> Str(10), sqft |-> Str(10000),
     zip_code |-> Str(75001)],
    [price |-> Str(1000000), units |-> Str(10), sqft |-> Str(10000),
     zip_code |-> Text(75201)] }

MakeCsvLine(t, i) == [c \in CsvColumns |-> IF c = "address" THEN Text(i) ELSE t[c]]

CsvFiles ==
  UNION { { [i \in 1..n |-> MakeCsvLine(ts[i], i)] : ts \in [1..n -> CsvLines] } :
          n \in 1..MaxCsvRows }

\* pd.read_csv infers a type per column: a column all of whose cells are
\* numerals is read as numbers, any other column is left as strings.
NumericColumn(file, c) == \A i \in 1..Len(file) : file[i][c].t = "str"

\* The number read from a numeral of column c, in the model's units.
CsvNumber(c, n) ==
  IF c = "zip_code" THEN Zip("int", n)
  ELSE IF c = "price" THEN Num(Dollars(n))
  ELSE IF c = "sqft" THEN Num(Sqft(n))
  ELSE Num(n)

\* A cell left as a string: a ZIP code or an address stays the text it
\* is; in a quantity column a string supports no arithmetic.
CsvString(c, cell) == IF c \in {"zip_code", "address"} THEN cell ELSE None

read_csv(file) ==
  [cols |-> CsvColumns,
   rows |-> [i \in 1..Len(file) |->
               [c \in CsvColumns |->
                  IF NumericColumn(file, c) THEN CsvNumber(c, file[i][c].n)
                  ELSE CsvString(c, file[i][c])]]]

MainRuns == {[op |-> "main", done |-> FALSE, file |-> f] : f \in CsvFiles}

\* A constructed calculator and one request to it: a direct call, a table
\* to analyze, or a loan to amortize over its term.
Init ==
  /\ self \in Configs
  /\ idx = 0
  /\ results = <<>>
  /\ outcome = NoOutcome
  /\ kept = NoKept
  /\ between = NoBetween
  /\ roe_tiers = ROE_TIERS
  /\ \/ /\ call \in Calls
        /\ properties_df = NoFrame
        /\ pc = "idle"
        /\ amort = NoAmort
     \/ /\ call = NoCall
        /\ properties_df \in Frames
        /\ pc = "start"
        /\ amort = NoAmort
     \/ /\ call = NoCall
        /\ properties_df = NoFrame
        /\ pc = "idle"
        /\ amort \in AmortRuns
     \/ /\ call \in MainRuns
        /\ self = DefaultConfig
        /\ properties_df = NoFrame
        /\ pc = "idle"
        /\ amort = NoAmort

(***************************************************************************)
(* Direct calls                                                            *)
(***************************************************************************)
Pending(op) == call.op = op /\ ~call.done

CallEstimateMarketRent ==
  /\ Pending("estimate_market_rent")
  /\ call' = [op |-> call.op, done |-> TRUE, zip_code |-> call.zip_code,
              sqft_per_unit |-> call.sqft_per_unit,
              ret |-> estimate_market_rent(call.zip_code, call.sqft_per_unit)]
  /\ UNCHANGED <<self, properties_df, pc, idx, results, outcome, amort,
               kept, between, roe_tiers>>

CallGetRoeTier ==
  /\ Pending("get_roe_tier")
  /\ call' = [op |-> call.op, done |-> TRUE, roe |-> call.roe,
              ret |-> get_roe_tier(call.roe)]
  /\ UNCHANGED <<self, properties_df, pc, idx, results, outcome, amort,
               kept, between, roe_tiers>>

CallMortgagePayment ==
  /\ Pending("calculate_mortgage_payment")
  /\ call' = [op |-> call.op, done |-> TRUE, loan_amount |-> call.loan_amount,
              annual_rate |-> call.annual_rate, years |-> call.years,
              ret |-> calculate_mortgage_payment(call.loan_amount,
                                                 call.annual_rate, call.years)]
  /\ UNCHANGED <<self, properties_df, pc, idx, results, outcome, amort,
               kept, between, roe_tiers>>

CallPrincipalPaydown ==
  /\ Pending("calculate_principal_paydown_year1")
  /\ call' = [op |-> call.op, done |-> TRUE, loan_amount |-> call.loan_amount,
              monthly_payment |-> call.monthly_payment,
              annual_rate |-> call.annual_rate,
              ret |-> calculate_principal_paydown_year1(call.loan_amount,
                                                        call.monthly_payment,
                                                        call.annual_rate)]
  /\ UNCHANGED <<self, properties_df, pc, idx, results, outcome, amort,
               kept, between, roe_tiers>>

CallCalculateRoe ==
  /\ Pending("calculate_roe")
  /\ \E r \in {calculate_roe(self, call.purchase_price, call.units, call.sqft,
                              call.zip_code, call.monthly_rent_per_unit)} :
        call' = [op |-> call.op, done |-> TRUE,
                 purchase_price |-> call.purchase_price, units |-> call.units,
                 sqft |-> call.sqft, zip_code |-> call.zip_code,
                 monthly_rent_per_unit |-> call.monthly_rent_per_unit,
                 exc |-> r.exc, estimated |-> r.estimated, ret |-> r.ret]
  /\ UNCHANGED <<self, properties_df, pc, idx, results, outcome, amort,
               kept, between, roe_tiers>>

(***************************************************************************)
(* analyze_portfolio, one step per statement of the loop                   *)
(***************************************************************************)
\* Mutant: results is not reset, as if it were kept on the calculator.
AnalyzeBegin_keeps_results ==
  /\ pc = "start"
  /\ pc' = IF Len(properties_df.rows) = 0 THEN "summary" ELSE "loop"
  /\ results' = results
  /\ idx' = 0
  /\ UNCHANGED <<self, call, properties_df, outcome, amort, kept, between, roe_tiers>>

\* logger.info(...); results = []
AnalyzeBegin ==
  /\ pc = "start"
  /\ pc' = IF Len(properties_df.rows) = 0 THEN "summary" ELSE "loop"
  /\ results' = <<>>
  /\ idx' = 0
  /\ UNCHANGED <<self, call, properties_df, outcome, amort, kept, between, roe_tiers>>

\* Mutant: the except clause drops the failed row from the input table.
AnalyzeRow_drops_failed_row ==
  /\ pc = "loop"
  /\ \E r \in {ProcessRow(self, properties_df.rows[idx + 1])} :
        /\ results' = IF r.exc = "" THEN Append(results, r.result) ELSE results
        /\ idx' = IF r.exc = "" THEN idx + 1 ELSE idx
        /\ properties_df' =
             IF r.exc = "" THEN properties_df
             ELSE [properties_df EXCEPT
                     !.rows = SubSeq(@, 1, idx) \o SubSeq(@, idx + 2, Len(@))]
  /\ pc' = IF idx' >= Len(properties_df'.rows) THEN "summary" ELSE "loop"
  /\ UNCHANGED <<self, call, outcome, amort, kept, between, roe_tiers>>

\* One iteration of "for idx, row in properties_df.iterrows()".
AnalyzeRow ==
  /\ pc = "loop"
  /\ \E r \in {ProcessRow(self, properties_df.rows[idx + 1])} :
        /\ results' = IF r.exc = "" THEN Append(results, r.result) ELSE results
        /\ idx' = IF r.exc = "" THEN idx + 1
                  ELSE NextIndexAfterFailure(idx, Len(properties_df.rows))
  /\ pc' = IF idx' >= Len(properties_df.rows) THEN "summary" ELSE "loop"
  /\ UNCHANGED <<self, call, properties_df, outcome, amort, kept, between, roe_tiers>>

\* result_df = pd.DataFrame(results); the summary counts; return result_df
AnalyzeSummary ==
  /\ pc = "summary"
  /\ outcome' = IF SummaryExc(results) # ""
                THEN [exc |-> SummaryExc(results), rows |-> <<>>]
                ELSE [exc |-> "", rows |-> results, logged |-> SummaryCounts(results)]
  /\ pc' = "done"
  /\ UNCHANGED <<self, call, properties_df, idx, results, amort, kept, between, roe_tiers>>

(***************************************************************************)
(* Amortization over the whole term: the payment of                        *)
(* calculate_mortgage_payment, then the loop body of                       *)
(* calculate_principal_paydown_year1 once per month, one step per month.   *)
(***************************************************************************)
AmortBegin ==
  /\ amort.stage = "new"
  /\ amort' = [stage |-> "run", loan_amount |-> amort.loan_amount,
               annual_rate |-> amort.annual_rate, years |-> amort.years,
               monthly_payment |->
                 calculate_mortgage_payment(amort.loan_amount, amort.annual_rate,
                                            amort.years),
               month |-> 0,
               s |-> [balance |-> amort.loan_amount, total_principal |-> Num(0)]]
  /\ UNCHANGED <<self, call, properties_df, pc, idx, results, outcome,
               kept, between, roe_tiers>>

AmortMonth ==
  /\ amort.stage = "run"
  /\ amort.month < NumPayments(amort.years).v
  /\ amort' = [amort EXCEPT
                 !.month = @ + 1,
                 !.s = AmortStep(@, amort.monthly_payment,
                                 PyDiv(amort.annual_rate, Num(12)))]
  /\ UNCHANGED <<self, call, properties_df, pc, idx, results, outcome,
               kept, between, roe_tiers>>

(***************************************************************************)
(* analyze_roe.main: the listings file is loaded and the table passed to   *)
(* analyze_portfolio of a calculator with the default configuration        *)
(***************************************************************************)
MainLoad ==
  /\ Pending("main")
  /\ properties_df' = read_csv(call.file)
  /\ call' = [call EXCEPT !.done = TRUE]
  /\ pc' = "start"
  /\ UNCHANGED <<self, idx, results, outcome, amort, kept, between, roe_tiers>>

(***************************************************************************)
(* The caller: a request made a second time, a call in between, and a      *)
(* change to a returned record                                             *)
(***************************************************************************)
\* The arguments of a direct calculate_roe call, as a call not yet made.
Args(c) ==
  [op |-> c.op, done |-> FALSE, purchase_price |-> c.purchase_price,
   units |-> c.units, sqft |-> c.sqft, zip_code |-> c.zip_code,
   monthly_rent_per_unit |-> c.monthly_rent_per_unit]

\* The value a direct call c returns on the calculator.
DirectCall(c) ==
  CASE c.op = "estimate_market_rent" ->
         estimate_market_rent(c.zip_code, c.sqft_per_unit)
    [] c.op = "calculate_mortgage_payment" ->
         calculate_mortgage_payment(c.loan_amount, c.annual_rate, c.years)
    [] c.op = "calculate_roe" ->
         calculate_roe(self, c.purchase_price, c.units, c.sqft, c.zip_code,
                       c.monthly_rent_per_unit)

\* The caller keeps the record a calculate_roe call returned and makes
\* the same call again.
RepeatCalculateRoe ==
  /\ call.op = "calculate_roe"
  /\ call.done
  /\ kept.op = "none"
  /\ Args(call) \in RepeatedCalls
  /\ kept' = [op |-> "calculate_roe", call |-> call]
  /\ call' = Args(call)
  /\ UNCHANGED <<self, properties_df, pc, idx, results, outcome, amort,
               between, roe_tiers>>

\* The caller keeps what analyze_portfolio returned (or raised) and calls
\* it again on the same table.
RepeatAnalyzePortfolio ==
  /\ pc = "done"
  /\ kept.op = "none"
  /\ Len(properties_df.rows) <= MaxRepeatRows
  /\ kept' = [op |-> "analyze_portfolio", outcome |-> outcome]
  /\ outcome' = NoOutcome
  /\ pc' = "start"
  /\ UNCHANGED <<self, call, properties_df, idx, results, amort, between, roe_tiers>>

\* Another call on the same calculator before the repetition; only its
\* return value is new, no method assigns to self or to ROE_TIERS.
BetweenCall ==
  /\ kept.op # "none"
  /\ between.op = "none"
  /\ Pending("calculate_roe") \/ pc = "start"
  /\ \E c \in BetweenCalls :
        between' = [op |-> c.op, ret |-> DirectCall(c)]
  /\ UNCHANGED <<self, call, properties_df, pc, idx, results, outcome, amort,
               kept, roe_tiers>>

\* kept_record['tier']['label'] = ...: the record's tier entry is the
\* dictionary get_roe_tier returned, which is the entry of ROE_TIERS.
CallerChangesTierEntry ==
  /\ kept.op = "calculate_roe"
  /\ kept.call.exc = ""
  /\ roe_tiers = ROE_TIERS
  /\ roe_tiers' = [roe_tiers EXCEPT ![kept.call.ret.tier].label = "changed"]
  /\ UNCHANGED <<self, call, properties_df, pc, idx, results, outcome, amort,
               kept, between>>

Next ==
  \/ AmortBegin
  \/ AmortMonth
  \/ CallEstimateMarketRent
  \/ CallGetRoeTier
  \/ CallMortgagePayment
  \/ CallPrincipalPaydown
  \/ CallCalculateRoe
  \/ AnalyzeBegin
  \/ AnalyzeRow
  \/ AnalyzeSummary
  \/ MainLoad
  \/ RepeatCalculateRoe
  \/ RepeatAnalyzePortfolio
  \/ BetweenCall
  \/ CallerChangesTierEntry

Spec == Init /\ [][Next]_vars

(***************************************************************************)
(* Claims                                                                  *)
(***************************************************************************)
RowFails(row) == ProcessRow(self, row).exc # ""
RowSucceeds(row) == ~RowFails(row)
InputRows == properties_df.rows
FailedCount == Cardinality({i \in 1..Len(InputRows) : RowFails(InputRows[i])})
Addresses(rs) == [i \in 1..Len(rs) |-> rs[i]["address"]]
InputRowOf(result) ==
  CHOOSE row \in {InputRows[i] : i \in 1..Len(InputRows)} :
    row["address"] = result["address"]

\* C1 (as claimed): analyze_portfolio on N rows of which K raise returns
\* exactly N-K rows and no exception propagates, for every 0 <= K <= N.
C1_BatchReturnsNMinusK ==
  pc = "done" =>
    /\ outcome.exc = ""
    /\ Len(outcome.rows) = Len(InputRows) - FailedCount

\* C2: a failing row never stops the batch: every row is iterated, the
\* results hold exactly the rows that succeed, in input order, and a
\* returned table is that list.
C2_FailedRowNeverStopsBatch ==
  /\ pc \in {"summary", "done"} => idx = Len(InputRows)
  /\ pc = "summary" =>
       Addresses(results) = Addresses(SelectSeq(InputRows, RowSucceeds))
  /\ (pc = "done" /\ outcome.exc = "") => outcome.rows = results

C2_Witness ==
  /\ pc = "done"
  /\ outcome.exc = ""
  /\ Len(outcome.rows) = 2
  /\ Len(InputRows) = 3
  /\ RowSucceeds(InputRows[1])
  /\ RowFails(InputRows[2])
  /\ RowSucceeds(InputRows[3])

\* C3: get_roe_tier maps every ROE value to exactly one tier, with
\* inclusive lower bounds: >= 0.20 unicorn, [0.15, 0.20) strong,
\* [0.10, 0.15) marginal, everything else pass.
TierOf(roe, tier) ==
  /\ tier \in TierNames
  /\ tier = "unicorn" <=> (IsNum(roe) /\ roe.v >= Pct(20))
  /\ tier = "strong" <=> (IsNum(roe) /\ roe.v >= Pct(15) /\ roe.v < Pct(20))
  /\ tier = "marginal" <=> (IsNum(roe) /\ roe.v >= Pct(10) /\ roe.v < Pct(15))
  /\ tier = "pass" <=> ~(IsNum(roe) /\ roe.v >= Pct(10))

C3_TierTotalNonOverlapping ==
  /\ (call.op = "get_roe_tier" /\ call.done) => TierOf(call.roe, call.ret)
  /\ (call.op = "calculate_roe" /\ call.done /\ call.exc = "") =>
       TierOf(call.ret.roe, call.ret.tier)

C3_Witness ==
  /\ call.op = "get_roe_tier"
  /\ call.done
  /\ call.roe = Num(Pct(20))
  /\ call.ret = "unicorn"

\* C4: the rent estimate lies in [800, 2500] for every ZIP code and every
\* sqft-per-unit value: zero, negative, extremely large, or NaN.
C4_RentWithinClamp ==
  (call.op = "estimate_market_rent" /\ call.done) =>
    /\ IsNum(call.ret)
    /\ call.ret.v >= Dollars(800)
    /\ call.ret.v <= Dollars(2500)

C4_Witness ==
  /\ call.op = "estimate_market_rent"
  /\ call.done
  /\ call.sqft_per_unit = NaN
  /\ call.ret = Num(Dollars(800))

\* A calculate_roe call whose arguments all support arithmetic.
NumericRoeCall ==
  /\ call.op = "calculate_roe"
  /\ call.done
  /\ call.purchase_price.k # "none"
  /\ call.units.k # "none"

IsZero(x) == IsNum(x) /\ x.v = 0

\* C5 (as claimed): CoC, ROE and cap rate are all exactly 0, and nothing
\* is raised, when the down payment is 0 or the price is 0.
C5_AllRatiosZero ==
  (NumericRoeCall /\ (IsZero(call.ret.down_payment) \/ IsZero(call.purchase_price))) =>
    /\ call.exc = ""
    /\ call.ret.roe = Num(0)
    /\ call.ret.coc = Num(0)
    /\ call.ret.cap_rate = Num(0)

\* C5 (amended): nothing is raised; ROE and CoC are exactly 0 when the
\* down payment is 0; cap rate is exactly 0 when the price is 0, and is
\* NOI / price when the price is positive, whatever the down payment.
C5_ZeroGuards ==
  NumericRoeCall =>
    /\ call.exc = ""
    /\ IsZero(call.ret.down_payment) =>
         (call.ret.roe = Num(0) /\ call.ret.coc = Num(0))
    /\ IsZero(call.purchase_price) =>
         (call.ret.roe = Num(0) /\ call.ret.coc = Num(0) /\ call.ret.cap_rate = Num(0))
    /\ (IsNum(call.purchase_price) /\ call.purchase_price.v > 0) =>
         call.ret.cap_rate = PyDivR(call.ret.noi, call.purchase_price)

C5_Witness ==
  /\ NumericRoeCall
  /\ call.exc = ""
  /\ self.down_pct = 0
  /\ call.purchase_price = Num(Dollars(1000000))
  /\ IsZero(call.ret.down_payment)
  /\ call.ret.roe = Num(0)
  /\ call.ret.coc = Num(0)
  /\ IsNum(call.ret.cap_rate)
  /\ call.ret.cap_rate.v > 0

\* 1000 sqft per unit at the ZIP tier's rate, within the clamp.
DefaultRent(zip_code) ==
  IF zip_code \in high_rent_zips THEN Num(Dollars(1400))
  ELSE IF zip_code \in mid_rent_zips THEN Num(Dollars(1200))
  ELSE Num(Dollars(1000))

MissingOrZero(x) == x.k \in {"none", "nan"} \/ IsZero(x)

\* C6 (as claimed): with no rent supplied, a missing or zero square
\* footage or unit count makes the estimated rent 1000 times the ZIP
\* tier rate, in a direct call and for a row of a batch.
C6_DefaultSqftPerUnit ==
  /\ (/\ call.op = "calculate_roe"
      /\ call.done
      /\ call.monthly_rent_per_unit = None
      /\ (MissingOrZero(call.sqft) \/ MissingOrZero(call.units))) =>
       call.ret.monthly_rent_per_unit = DefaultRent(call.zip_code)
  /\ \A j \in 1..Len(results) :
       (\/ MissingOrZero(RowGetOrNone(InputRowOf(results[j]), "sqft"))
        \/ MissingOrZero(InputRowOf(results[j])["units"])) =>
         results[j]["monthly_rent_per_unit"] = DefaultRent(results[j]["zip_code"])

\* C7: a supplied monthly_rent_per_unit (0 and values outside [800, 2500]
\* included) is used as it is, unclamped, and the estimator is called if
\* and only if no rent is supplied.
C7_SuppliedRentUsedUnclamped ==
  (call.op = "calculate_roe" /\ call.done) =>
    /\ call.estimated <=> (call.monthly_rent_per_unit = None)
    /\ call.monthly_rent_per_unit # None =>
         /\ call.ret.monthly_rent_per_unit = call.monthly_rent_per_unit
         /\ call.ret.annual_gross_rent =
              PyMul(PyMul(call.monthly_rent_per_unit, call.units), Num(12))

C7_Witness ==
  /\ call.op = "calculate_roe"
  /\ call.done
  /\ call.exc = ""
  /\ call.monthly_rent_per_unit = Num(0)
  /\ call.units = Num(10)
  /\ ~call.estimated
  /\ call.ret.monthly_rent_per_unit = Num(0)
  /\ call.ret.annual_gross_rent = Num(0)

\* C8 (as claimed): a batch row that carries a known monthly rent per
\* unit is valued with that rent, and its result row returns it.
C8_BatchUsesKnownRent ==
  \A j \in 1..Len(results) :
    "monthly_rent_per_unit" \in properties_df.cols =>
      results[j]["monthly_rent_per_unit"] =
        InputRowOf(results[j])["monthly_rent_per_unit"]

\* C9: with a monthly rate of exactly zero the payment is principal /
\* (years * 12); otherwise it is P * r * (1+r)^n / ((1+r)^n - 1) with
\* r = annual rate / 12 and n = years * 12.
C9_PaymentFormula ==
  (call.op = "calculate_mortgage_payment" /\ call.done) =>
    LET P == call.loan_amount
        n == call.years.v * 12
        r == PyDiv(call.annual_rate, Num(12))
        growth == PyPow(PyAdd(Num(RS), r), Num(n))
    IN /\ IsNum(call.ret)
       /\ r.v = 0 => 2 * Abs(P.v - call.ret.v * n) <= n
       /\ r.v # 0 =>
            call.ret = PyDivR(PyMulR(P, PyMulR(r, growth)), PySub(growth, Num(RS)))

C9_Witness ==
  /\ call.op = "calculate_mortgage_payment"
  /\ call.done
  /\ call.annual_rate = Num(0)
  /\ call.loan_amount = Num(Dollars(1200))
  /\ call.years = Num(2)
  /\ call.ret = Num(Dollars(50))

\* C10: for L > 0 and r > 0, the payment of calculate_mortgage_payment
\* applied month by month for years * 12 months leaves a balance of
\* approximately 0 (within half a percent of the loan).
Tolerance(loan_amount) == loan_amount.v \div 200

C10_PaymentRetiresLoan ==
  (/\ amort.stage = "run"
   /\ amort.month = amort.years.v * 12
   /\ amort.loan_amount.v > 0
   /\ amort.annual_rate.v > 0) =>
    /\ IsNum(amort.s.balance)
    /\ Abs(amort.s.balance.v) <= Tolerance(amort.loan_amount)

C10_Witness ==
  /\ amort.stage = "run"
  /\ amort.month = 360
  /\ amort.loan_amount = Num(Dollars(750000))
  /\ amort.annual_rate = Num(Pct(7))
  /\ amort.years = Num(30)
  /\ Abs(amort.s.balance.v) <= Tolerance(amort.loan_amount)
  /\ amort.s.total_principal.v >= Dollars(750000) - Tolerance(amort.loan_amount)

\* The interest of the first month on a loan: loan_amount * annual_rate / 12.
FirstInterest(loan_amount, annual_rate) ==
  PyMulR(loan_amount, PyDiv(annual_rate, Num(12)))

\* C11 (as claimed): on a loan L > 0 the year-1 principal paydown is
\* strictly positive whenever the monthly payment is > 0 (and strictly less
\* than L when the payment is that of a term of more than one year).
C11_PaydownPositiveForPositivePayment ==
  /\ (/\ call.op = "calculate_principal_paydown_year1"
      /\ call.done
      /\ call.loan_amount.v > 0
      /\ call.monthly_payment.v > 0) =>
       (IsNum(call.ret) /\ call.ret.v > 0)
  /\ (/\ amort.stage = "run"
      /\ amort.month = 12
      /\ amort.years.v > 1) =>
       amort.s.total_principal.v < amort.loan_amount.v

\* C11 (amended): with the payment computed by calculate_mortgage_payment
\* for a loan L > 0 and a term of more than one year, the principal retired
\* in the first 12 months is strictly positive and strictly less than L,
\* in an amortization run and in every calculate_roe result; for an
\* arbitrary payment it is strictly positive when the payment exceeds the
\* first month's interest and not positive when it does not.
C11_PaydownBounds ==
  /\ (/\ amort.stage = "run"
      /\ amort.month = 12
      /\ amort.years.v > 1) =>
       /\ amort.monthly_payment.v > 0
       /\ amort.s.total_principal.v > 0
       /\ amort.s.total_principal.v < amort.loan_amount.v
  /\ (/\ call.op = "calculate_roe"
      /\ call.done
      /\ call.exc = ""
      /\ IsNum(call.ret.loan_amount)
      /\ call.ret.loan_amount.v > 0
      /\ self.term > 1) =>
       /\ call.ret.monthly_payment.v > 0
       /\ call.ret.principal_paydown.v > 0
       /\ call.ret.principal_paydown.v < call.ret.loan_amount.v
  /\ (/\ call.op = "calculate_principal_paydown_year1"
      /\ call.done
      /\ call.loan_amount.v > 0) =>
       /\ IsNum(call.ret)
       /\ call.ret.v > 0 <=>
            call.monthly_payment.v > FirstInterest(call.loan_amount, call.annual_rate).v

C11_Witness ==
  /\ amort.stage = "run"
  /\ amort.month = 12
  /\ amort.years = Num(30)
  /\ amort.annual_rate = Num(Pct(7))
  /\ amort.loan_amount = Num(Dollars(750000))
  /\ amort.s.total_principal.v > Dollars(7000)
  /\ amort.s.total_principal.v < Dollars(8000)

\* The worked example: price 1,000,000, 10 units, 10,000 sqft, a ZIP code
\* on neither list, no rent supplied, under the default configuration.
ExampleCall ==
  /\ self = DefaultConfig
  /\ call.op = "calculate_roe"
  /\ call.done
  /\ call.purchase_price = Num(Dollars(1000000))
  /\ call.units = Num(10)
  /\ call.sqft = Num(Sqft(10000))
  /\ call.zip_code = Zip("str", 75001)
  /\ call.monthly_rent_per_unit = None

\* C12: the worked example returns rent per unit 1,000, annual gross rent
\* 120,000, operating expenses 42,000, NOI 78,000, down payment 250,000
\* and loan amount 750,000.
C12_ExampleExactStages ==
  ExampleCall =>
    /\ call.exc = ""
    /\ call.ret.monthly_rent_per_unit = Num(Dollars(1000))
    /\ call.ret.annual_gross_rent = Num(Dollars(120000))
    /\ call.ret.annual_opex = Num(Dollars(42000))
    /\ call.ret.noi = Num(Dollars(78000))
    /\ call.ret.down_payment = Num(Dollars(250000))
    /\ call.ret.loan_amount = Num(Dollars(750000))

C12_Witness ==
  /\ ExampleCall
  /\ call.estimated
  /\ call.ret.noi = Num(Dollars(78000))
  /\ call.ret.loan_amount = Num(Dollars(750000))

\* x is a number within tol of target.
Near(x, target, tol) == IsNum(x) /\ Abs(x.v - target) <= tol

\* C13 (as claimed): the worked example yields, to within one percent of
\* each figure, monthly payment 4,989.86, annual debt service 59,878.32,
\* cash flow 18,121.68, year-1 principal paydown 9,430, total return
\* 27,551.68 and ROE 11.02%, and the tier is marginal.
C13_ExampleFinancedStages ==
  ExampleCall =>
    /\ Near(call.ret.monthly_payment, 498986, 498986 \div 100)
    /\ Near(call.ret.annual_debt_service, 5987832, 5987832 \div 100)
    /\ Near(call.ret.cash_flow, 1812168, 1812168 \div 100)
    /\ Near(call.ret.principal_paydown, Dollars(9430), Dollars(9430) \div 100)
    /\ Near(call.ret.total_return, 2755168, 2755168 \div 100)
    /\ Near(call.ret.roe, 1102 * (RS \div 10000), (1102 * (RS \div 10000)) \div 100)
    /\ call.ret.tier = "marginal"

\* C13 (amended): the worked example yields, to within one dollar, monthly
\* payment 4,989.77, annual debt service 59,877.22, cash flow 18,122.78,
\* year-1 principal paydown 7,618.57 and total return 25,741.35; ROE is
\* 10.30% to within 0.01 of a percentage point, the hurdle is not met and
\* the tier is marginal.
C13_ExampleFinancedStagesAsComputed ==
  ExampleCall =>
    /\ call.exc = ""
    /\ Near(call.ret.monthly_payment, 498977, Dollars(1))
    /\ Near(call.ret.annual_debt_service, 5987722, Dollars(1))
    /\ Near(call.ret.cash_flow, 1812278, Dollars(1))
    /\ Near(call.ret.principal_paydown, 761857, Dollars(1))
    /\ Near(call.ret.total_return, 2574135, Dollars(1))
    /\ Near(call.ret.roe, 1030 * (RS \div 10000), RS \div 10000)
    /\ call.ret.appreciation = Num(0)
    /\ call.ret.meets_hurdle = FALSE
    /\ call.ret.tier = "marginal"

C13_Witness ==
  /\ ExampleCall
  /\ call.exc = ""
  /\ Near(call.ret.principal_paydown, 761857, Dollars(1))
  /\ call.ret.tier = "marginal"

\* C14: a calculate_roe call, or an analyze_portfolio call, made a second
\* time with the same arguments on the same calculator returns (or raises)
\* exactly what the first did, whatever call was made in between.
C14_RepeatedCallSameResult ==
  /\ (kept.op = "calculate_roe" /\ call.done) =>
       /\ Args(call) = Args(kept.call)
       /\ call = kept.call
  /\ (kept.op = "analyze_portfolio" /\ pc = "done") => outcome = kept.outcome

C14_Witness ==
  /\ kept.op = "analyze_portfolio"
  /\ between.op = "calculate_roe"
  /\ pc = "done"
  /\ Len(properties_df.rows) = 2
  /\ Len(outcome.rows) = 1
  /\ outcome = kept.outcome

\* C15 (as claimed): every returned row carries every column of its input
\* row with the input's value unchanged, whatever the input columns are
\* named.
C15_InputColumnsPreserved ==
  \A j \in 1..Len(results) :
    \A c \in properties_df.cols :
      /\ c \in DOMAIN results[j]
      /\ results[j][c] = InputRowOf(results[j])[c]

\* The number of rows of rs classified in tier t.
TierCount(rs, t) == Cardinality({j \in 1..Len(rs) : rs[j]["tier"] = t})

\* C16 (as claimed): analyze_portfolio ends by reporting, for each of the
\* four tiers, the number of returned rows of that tier, and returns the
\* result set unchanged by the reporting.
C16_SummaryCountsPerTier ==
  pc = "done" =>
    /\ outcome.exc = ""
    /\ outcome.rows = results
    /\ outcome.logged.unicorns = TierCount(outcome.rows, "unicorn")
    /\ outcome.logged.strong = TierCount(outcome.rows, "strong")
    /\ outcome.logged.marginal = TierCount(outcome.rows, "marginal")
    /\ "pass" \in DOMAIN outcome.logged
    /\ outcome.logged["pass"] = TierCount(outcome.rows, "pass")

\* The tier entry seen through a result record: the dictionary its 'tier'
\* key refers to.
TierEntry(ret) == roe_tiers[ret.tier]

\* C17 (as claimed): a change made to a returned record, its tier entry
\* included, shows neither in the ROE_TIERS table nor in the record a
\* later call returns.
C17_ResultRecordsFresh ==
  /\ roe_tiers = ROE_TIERS
  /\ (kept.op = "calculate_roe" /\ call.done /\ call.exc = "") =>
       TierEntry(call.ret) = ROE_TIERS[call.ret.tier]

\* meets_hurdle and tier of a result record agree with its ROE.
HurdleAgrees(ret) ==
  /\ ret.meets_hurdle <=> (IsNum(ret.roe) /\ ret.roe.v >= Pct(15))
  /\ ret.meets_hurdle <=> ret.tier \in {"unicorn", "strong"}
  /\ ret.tier \in {"marginal", "pass"} => ~ret.meets_hurdle

\* C18: in every result record meets_hurdle is true if and only if
\* ROE >= 0.15, if and only if the tier is unicorn or strong.
C18_HurdleAgreesWithTier ==
  /\ (call.op = "calculate_roe" /\ call.done /\ call.exc = "") =>
       HurdleAgrees(call.ret)
  /\ \A j \in 1..Len(results) : HurdleAgrees(results[j])

C18_Witness ==
  /\ call.op = "calculate_roe"
  /\ call.done
  /\ call.exc = ""
  /\ call.ret.meets_hurdle
  /\ call.ret.tier = "strong"

NonZero(x) == IsNum(x) /\ x.v # 0

\* C19 (as claimed): 0 is substituted for a ratio only when its denominator
\* is exactly 0: with a nonzero down payment, negative included, ROE is
\* total return / down payment and CoC is cash flow / down payment; with a
\* nonzero price cap rate is NOI / price.
C19_ZeroOnlyWhenDenominatorZero ==
  (NumericRoeCall /\ call.exc = "") =>
    /\ NonZero(call.ret.down_payment) =>
         /\ call.ret.roe = PyDivR(call.ret.total_return, call.ret.down_payment)
         /\ call.ret.coc = PyDivR(call.ret.cash_flow, call.ret.down_payment)
    /\ NonZero(call.purchase_price) =>
         call.ret.cap_rate = PyDivR(call.ret.noi, call.purchase_price)

\* C20: no step of any call, a step in which a row fails included, changes
\* the calculator's configuration, and analyze_portfolio leaves its input
\* table as it was from the moment it is passed.
C20_ConfigAndTableUnchanged ==
  [][self' = self /\ (pc # "idle" => properties_df' = properties_df)]_vars

C20_Witness ==
  /\ pc = "done"
  /\ kept.op = "analyze_portfolio"
  /\ between.op = "calculate_roe"
  /\ Len(properties_df.rows) = 2
  /\ Len(outcome.rows) = 1
  /\ self.down_pct = Pct(20)

\* The rate of the list a ZIP code is on, whichever way the code is
\* represented: as the string '75201' or as the number 75201.
ListedRate(zip_code) ==
  IF zip_code.t \in {"str", "int"} THEN base_rate(Zip("str", zip_code.n))
  ELSE base_rate(zip_code)

\* C21 (as claimed): in the pipeline of analyze_roe.main a listing whose ZIP
\* code is on the high-rent list is valued at 1.40 per square foot and one
\* on the mid-rent list at 1.20, whether the ZIP reaches
\* estimate_market_rent as a string or as the number read from the file;
\* only a ZIP on neither list is valued at 1.00.
C21_PipelineZipRate ==
  call.op = "main" =>
    \A j \in 1..Len(results) :
      results[j]["monthly_rent_per_unit"] =
        ClampRent(PyMulR(SqftPerUnit(results[j]["sqft"], results[j]["units"]),
                         Num(ListedRate(results[j]["zip_code"]))))

====
